---- MODULE Spec2Model ----
(***************************************************************************)
(* A model of typed-store/src/rocks/mod.rs: DBMap<K, V>, a typed view of   *)
(* one column family of a shared RocksDB instance, and DBBatch, a write    *)
(* batch over the column families of one instance.                         *)
(*                                                                         *)
(* RocksDB and bincode are libraries the file calls.  They are modelled by *)
(* their documented contracts: a column family is an ordered map from key  *)
(* bytes to value bytes under the bytewise comparator; DB::write applies a *)
(* WriteBatch wholly or not at all; every call into the engine may report  *)
(* an error (the `fault` parameter of an action), and then changes         *)
(* nothing.                                                                *)
(*                                                                         *)
(* The handles are the ones a program holds after                          *)
(*   open_cf(path1, None, &["A", "B"]), open_cf(path2, None, &["A", "B"]), *)
(*   mA  = DBMap::<i16, u8>::reopen(&db1, Some("A")),                      *)
(*   mAb = DBMap::<i16, bool>::reopen(&db1, Some("A")),                    *)
(*   mB  = DBMap::<i16, u8>::reopen(&db1, Some("B")),                      *)
(*   mX  = DBMap::<i16, u8>::reopen(&db2, Some("A")).                      *)
(***************************************************************************)
EXTENDS Integers, Sequences, FiniteSets, TLC

VARIABLES
    cfs,      \* cfs[e][name]: the column family `name` of engine e
    batch,    \* the DBBatch a caller is building, if any
    clearPc,  \* clearPc[m]: where the thread inside m.clear() stands
    cursor,   \* the cursor a caller is advancing, if any
    last      \* the call that made the last step, with what it returned

vars == <<cfs, batch, clearPc, cursor, last>>

---------------------------------------------------------------------------
(* Bounds of the model. *)

\* staged operations one batch may hold
MaxOps == 2
\* keys one multi_get call may pass
MaxKeys == 2
\* column family names one open_cf call may request
MaxNames == 2

---------------------------------------------------------------------------
(* Values: Option, Result. *)

None == [some |-> FALSE, v |-> 0]
Some(x) == [some |-> TRUE, v |-> x]

Ok(x) == [tag |-> "Ok", kind |-> "", val |-> x]
Err(kind) == [tag |-> "Err", kind |-> kind, val |-> <<>>]
\* the thread unwound out of the call: `expect` on a None
Panic == [tag |-> "Panic", kind |-> "", val |-> <<>>]

\* one call and its outcome; ks and vals are the arguments, fault what
\* the engine was made to report during the call (0 / FALSE: nothing), self
\* the staged operations of the batch the call was made on (none for a call
\* on a DBMap)
BatchCall(op, m, ks, vals, fault, ops, res) ==
    [op |-> op, map |-> m, keys |-> ks, vals |-> vals, fault |-> fault,
     self |-> ops, res |-> res]

Call(op, m, ks, vals, fault, res) == BatchCall(op, m, ks, vals, fault, <<>>, res)

---------------------------------------------------------------------------
(* The key codec: bincode::DefaultOptions::new().with_big_endian()         *)
(* .with_fixint_encoding(), for K = i16.                                   *)

\* bytes of an i16 under fixint encoding
KeyWidth == 2

\* K is any Serialize type, and serialisation may report an error.  An i16
\* never does; this value stands for a key whose serialisation fails.
UnencodableKey == 32768

\* fixint encoding writes a signed integer as its two's complement
TwosComplement(k, w) == IF k < 0 THEN k + 256 ^ w ELSE k

\* the bytes of n, most significant first
BigEndian(n, w) == [i \in 1..w |-> (n \div (256 ^ (w - i))) % 256]

\* config.serialize(key)
serialize_key(k) ==
    IF k = UnencodableKey
      THEN [ok |-> FALSE, bytes |-> <<>>]
      ELSE [ok |-> TRUE, bytes |-> BigEndian(TwosComplement(k, KeyWidth), KeyWidth)]

\* rocksdb's default comparator: byte-lexicographic, a proper prefix first
BytesLess(a, b) ==
    \/ \E i \in 1..Len(a) :
         /\ i <= Len(b)
         /\ a[i] < b[i]
         /\ \A j \in 1..(i - 1) : a[j] = b[j]
    \/ /\ Len(a) < Len(b)
       /\ \A j \in 1..Len(a) : a[j] = b[j]

BytesLeq(a, b) == a = b \/ BytesLess(a, b)

---------------------------------------------------------------------------
(* The value codec: bincode::serialize / bincode::deserialize, for V = u8  *)
(* and V = bool (a bool is written here by its discriminant, 0 or 1).      *)

\* bincode::serialize(value): one byte for a u8 and for a bool
serialize_value(v) == <<v % 256>>

\* bincode::deserialize(&data): trailing bytes are allowed, a bool byte
\* other than 0 or 1 is InvalidBoolEncoding, no byte at all is an Eof error
deserialize_value(ty, bytes) ==
    IF Len(bytes) = 0
      THEN [ok |-> FALSE, v |-> 0]
      ELSE IF ty = "bool" /\ bytes[1] \notin {0, 1}
        THEN [ok |-> FALSE, v |-> 0]
        ELSE [ok |-> TRUE, v |-> bytes[1]]

---------------------------------------------------------------------------
(* The engines, their column families and the typed handles.               *)

Engines == {"db1", "db2"}
\* rocksdb::DEFAULT_COLUMN_FAMILY_NAME: the column family every engine has
DEFAULT_COLUMN_FAMILY_NAME == "default"
\* the column families of an engine: the default one and the two requested
CFNames == {DEFAULT_COLUMN_FAMILY_NAME, "A", "B"}
Maps == {"mA", "mAb", "mB", "mX"}

\* DBMap.rocksdb: the engine instance the handle shares
MapDb(m) == IF m = "mX" THEN "db2" ELSE "db1"
\* DBMap.cf: the name of the handle's column family
MapCf(m) == IF m = "mB" THEN "B" ELSE "A"
\* the V of DBMap<K, V>
MapVTy(m) == IF m = "mAb" THEN "bool" ELSE "u8"

\* a column family that exists and holds nothing
EmptyCf == [live |-> TRUE, data |-> <<>>]
\* a column family that was dropped
AbsentCf == [live |-> FALSE, data |-> <<>>]

\* self.rocksdb.cf_handle(&self.cf).is_some()
cf_handle(c, m) == c[MapDb(m)][MapCf(m)].live

\* the contents of the handle's column family
CfData(c, m) == c[MapDb(m)][MapCf(m)].data

\* rocksdb put: the column family with kb bound to vb
PutBytes(d, kb, vb) == [x \in (DOMAIN d) \cup {kb} |-> IF x = kb THEN vb ELSE d[x]]

\* rocksdb delete: the column family without kb
DeleteBytes(d, kb) == [x \in (DOMAIN d) \ {kb} |-> d[x]]

\* rocksdb delete_range: the column family without the keys of [from, to)
DeleteRangeBytes(d, from, to) ==
    [x \in {y \in DOMAIN d : ~(BytesLeq(from, y) /\ BytesLess(y, to))} |-> d[x]]

\* c with the data of the handle's column family replaced by d
WithData(c, m, d) ==
    [c EXCEPT ![MapDb(m)][MapCf(m)] = [live |-> TRUE, data |-> d]]

---------------------------------------------------------------------------
(* DBMap: the point operations.  Each returns the call's result and the    *)
(* engine state it leaves.                                                 *)

Outcome(res, c) == [res |-> res, cfs |-> c]

\* DBMap::get
get(c, m, k, fault) ==
    LET ek == serialize_key(k) IN
    IF ~ek.ok THEN Err("SerializationError")
    ELSE IF ~cf_handle(c, m) THEN Panic
    ELSE IF fault THEN Err("RocksDBError")
    ELSE IF ek.bytes \in DOMAIN CfData(c, m)
      THEN LET d == deserialize_value(MapVTy(m), CfData(c, m)[ek.bytes]) IN
           IF d.ok THEN Ok(<<Some(d.v)>>) ELSE Err("SerializationError")
      ELSE Ok(<<None>>)

\* an insert that keeps the value a key already has
insert_if_absent(c, m, k, v, fault) ==
    LET ek == serialize_key(k) IN
    IF ~ek.ok THEN Outcome(Err("SerializationError"), c)
    ELSE IF ~cf_handle(c, m) THEN Outcome(Panic, c)
    ELSE IF fault THEN Outcome(Err("RocksDBError"), c)
    ELSE IF ek.bytes \in DOMAIN CfData(c, m) THEN Outcome(Ok(<<>>), c)
    ELSE Outcome(Ok(<<>>),
                 WithData(c, m, PutBytes(CfData(c, m), ek.bytes, serialize_value(v))))

\* an insert with put in the place of put_cf: the pair goes to the default
\* column family of the engine
insert_default_cf(c, m, k, v, fault) ==
    LET ek == serialize_key(k) IN
    IF ~ek.ok THEN Outcome(Err("SerializationError"), c)
    ELSE IF ~cf_handle(c, m) THEN Outcome(Panic, c)
    ELSE IF fault THEN Outcome(Err("RocksDBError"), c)
    ELSE Outcome(Ok(<<>>),
                 [c EXCEPT ![MapDb(m)][DEFAULT_COLUMN_FAMILY_NAME].data =
                     PutBytes(@, ek.bytes, serialize_value(v))])

\* DBMap::insert
insert(c, m, k, v, fault) ==
    LET ek == serialize_key(k) IN
    IF ~ek.ok THEN Outcome(Err("SerializationError"), c)
    ELSE IF ~cf_handle(c, m) THEN Outcome(Panic, c)
    ELSE IF fault THEN Outcome(Err("RocksDBError"), c)
    ELSE Outcome(Ok(<<>>),
                 WithData(c, m, PutBytes(CfData(c, m), ek.bytes, serialize_value(v))))

\* DBMap::remove
remove(c, m, k, fault) ==
    LET ek == serialize_key(k) IN
    IF ~ek.ok THEN Outcome(Err("SerializationError"), c)
    ELSE IF ~cf_handle(c, m) THEN Outcome(Panic, c)
    ELSE IF fault THEN Outcome(Err("RocksDBError"), c)
    ELSE Outcome(Ok(<<>>), WithData(c, m, DeleteBytes(CfData(c, m), ek.bytes)))

\* the first position of a list of per-key outcomes that is an error, or 0
FirstError(outs) ==
    LET bad == {i \in 1..Len(outs) : outs[i].tag = "Err"} IN
    IF bad = {} THEN 0 ELSE CHOOSE i \in bad : \A j \in bad : i <= j

\* a multi_get that leaves out the keys it does not find
multi_get_found_only(c, m, ks, faultAt) ==
    LET data == CfData(c, m)
        found == SelectSeq(ks, LAMBDA k : serialize_key(k).bytes \in DOMAIN data)
        ds == [i \in 1..Len(found) |->
                 deserialize_value(MapVTy(m), data[serialize_key(found[i]).bytes])]
    IN
    IF ~cf_handle(c, m) THEN Panic
    ELSE IF \E i \in 1..Len(ks) : ~serialize_key(ks[i]).ok THEN Err("SerializationError")
    ELSE IF faultAt # 0 THEN Err("RocksDBError")
    ELSE IF \E i \in 1..Len(found) : ~ds[i].ok THEN Err("SerializationError")
    ELSE Ok([i \in 1..Len(found) |-> Some(ds[i].v)])

\* a multi_get that turns bytes it cannot decode into None
multi_get_lossy(c, m, ks, faultAt) ==
    LET data == CfData(c, m)
        opt(k) == LET kb == serialize_key(k).bytes IN
                  IF kb \in DOMAIN data /\ deserialize_value(MapVTy(m), data[kb]).ok
                    THEN Some(deserialize_value(MapVTy(m), data[kb]).v)
                    ELSE None
    IN
    IF ~cf_handle(c, m) THEN Panic
    ELSE IF \E i \in 1..Len(ks) : ~serialize_key(ks[i]).ok THEN Err("SerializationError")
    ELSE IF faultAt # 0 THEN Err("RocksDBError")
    ELSE Ok([i \in 1..Len(ks) |-> opt(ks[i])])

\* DBMap::multi_get; faultAt is the position whose lookup the engine fails
\* (0: none)
multi_get(c, m, ks, faultAt) ==
    LET eks == [i \in 1..Len(ks) |-> serialize_key(ks[i])]
        \* rocksdb.multi_get_cf: one Result<Option<bytes>> per key, in order
        parsed == [i \in 1..Len(ks) |->
                     IF i = faultAt THEN Err("RocksDBError")
                     ELSE IF eks[i].bytes \in DOMAIN CfData(c, m)
                       THEN LET d == deserialize_value(MapVTy(m),
                                                       CfData(c, m)[eks[i].bytes]) IN
                            IF d.ok THEN Ok(Some(d.v)) ELSE Err("SerializationError")
                       ELSE Ok(None)]
        e == FirstError(parsed)
    IN
    IF ~cf_handle(c, m) THEN Panic
    ELSE IF \E i \in 1..Len(ks) : ~eks[i].ok THEN Err("SerializationError")
    ELSE IF e # 0 THEN Err(parsed[e].kind)
    ELSE Ok([i \in 1..Len(ks) |-> parsed[i].val])

\* the first half of DBMap::clear: `let _ = self.rocksdb.drop_cf(&self.cf)`.
\* The result is discarded; dropping a column family that does not exist, or
\* an engine error, leaves the engine as it was.
drop_cf(c, m, fault) ==
    IF cf_handle(c, m) /\ ~fault
      THEN Outcome(Ok(<<>>), [c EXCEPT ![MapDb(m)][MapCf(m)] = AbsentCf])
      ELSE Outcome(Err("RocksDBError"), c)

\* a create that takes a column family that exists for created
create_cf_existing_ok(c, m, fault) ==
    IF fault THEN Outcome(Err("RocksDBError"), c)
    ELSE IF cf_handle(c, m) THEN Outcome(Ok(<<>>), c)
    ELSE Outcome(Ok(<<>>), [c EXCEPT ![MapDb(m)][MapCf(m)] = EmptyCf])

\* a create that is tried again until the engine accepts it
create_cf_retried(c, m, fault) ==
    IF cf_handle(c, m)
      THEN Outcome(Err("RocksDBError"), c)
      ELSE Outcome(Ok(<<>>), [c EXCEPT ![MapDb(m)][MapCf(m)] = EmptyCf])

\* the second half of DBMap::clear: `self.rocksdb.create_cf(..)?`.  rocksdb
\* refuses to create a column family whose name exists.
create_cf(c, m, fault) ==
    IF cf_handle(c, m) \/ fault
      THEN Outcome(Err("RocksDBError"), c)
      ELSE Outcome(Ok(<<>>), [c EXCEPT ![MapDb(m)][MapCf(m)] = EmptyCf])

---------------------------------------------------------------------------
(* DBBatch: an engine reference and a rocksdb WriteBatch, the list of the  *)
(* staged operations.  An operation names its column family by the id of   *)
(* the handle it was staged with; `stale` says that this column family was *)
(* dropped since.                                                          *)

\* no batch in the caller's hands: none made yet, or the last one was moved
\* into a call that did not give it back
NoBatch == [open |-> FALSE, db |-> "db1", ops |-> <<>>]

\* DBBatch::new
new(db) == [open |-> TRUE, db |-> db, ops |-> <<>>]

\* WriteBatch::put_cf
PutOp(m, kb, vb) == [kind |-> "put", cf |-> MapCf(m), key |-> kb, val |-> vb, stale |-> FALSE]
\* WriteBatch::delete_cf
DeleteOp(m, kb) == [kind |-> "delete", cf |-> MapCf(m), key |-> kb, val |-> <<>>, stale |-> FALSE]
\* WriteBatch::delete_range_cf: val holds the end of the range
DeleteRangeOp(m, from, to) ==
    [kind |-> "delete_range", cf |-> MapCf(m), key |-> from, val |-> to, stale |-> FALSE]

\* what a staging call hands back: its result and the batch the caller holds
\* afterwards.  A call takes the batch by value (`mut self`): it gives it
\* back in Ok(self), and on every other path the batch is dropped.
Staged(res, b) == [res |-> res, batch |-> b]

\* `!Arc::ptr_eq(&db.rocksdb, &self.rocksdb)`
CrossDb(b, m) == MapDb(m) # b.db

\* the closure of insert_batch over the elements from position i on
RECURSIVE StagePuts(_, _, _, _, _)
StagePuts(c, b, m, elems, i) ==
    IF i > Len(elems) THEN Staged(Ok(<<>>), b)
    ELSE LET ek == serialize_key(elems[i][1]) IN
         IF ~ek.ok THEN Staged(Err("SerializationError"), NoBatch)
         ELSE IF ~cf_handle(c, m) THEN Staged(Panic, NoBatch)
         ELSE StagePuts(c,
                        [b EXCEPT !.ops = Append(@, PutOp(m, ek.bytes,
                                                         serialize_value(elems[i][2])))],
                        m, elems, i + 1)

\* an insert_batch on a batch that stays with the caller: what the call
\* staged before the element that fails to encode is still in the batch
insert_batch_kept(c, b, m, elems) ==
    LET o == StagePuts(c, b, m, elems, 1)
        bad == {i \in 1..Len(elems) : ~serialize_key(elems[i][1]).ok}
        first == IF bad = {} THEN Len(elems) + 1 ELSE CHOOSE i \in bad : \A j \in bad : i <= j
        staged == [i \in 1..(first - 1) |->
                     PutOp(m, serialize_key(elems[i][1]).bytes, serialize_value(elems[i][2]))]
    IN
    IF CrossDb(b, m) THEN Staged(Err("CrossDBBatch"), NoBatch)
    ELSE IF o.res.tag = "Err" THEN Staged(o.res, [b EXCEPT !.ops = @ \o staged])
    ELSE o

\* DBBatch::insert_batch
insert_batch(c, b, m, elems) ==
    IF CrossDb(b, m) THEN Staged(Err("CrossDBBatch"), NoBatch)
    ELSE StagePuts(c, b, m, elems, 1)

\* the closure of delete_batch over the keys from position i on
RECURSIVE StageDeletes(_, _, _, _, _)
StageDeletes(c, b, m, ks, i) ==
    IF i > Len(ks) THEN Staged(Ok(<<>>), b)
    ELSE LET ek == serialize_key(ks[i]) IN
         IF ~ek.ok THEN Staged(Err("SerializationError"), NoBatch)
         ELSE IF ~cf_handle(c, m) THEN Staged(Panic, NoBatch)
         ELSE StageDeletes(c, [b EXCEPT !.ops = Append(@, DeleteOp(m, ek.bytes))],
                           m, ks, i + 1)

\* DBBatch::delete_batch
delete_batch(c, b, m, ks) ==
    IF CrossDb(b, m) THEN Staged(Err("CrossDBBatch"), NoBatch)
    ELSE StageDeletes(c, b, m, ks, 1)

\* delete_range without the check of the engine
delete_range_unchecked(c, b, m, from, to) ==
    LET ef == serialize_key(from)
        et == serialize_key(to)
    IN
    IF ~ef.ok \/ ~et.ok THEN Staged(Err("SerializationError"), NoBatch)
    ELSE IF ~cf_handle(c, m) THEN Staged(Panic, NoBatch)
    ELSE Staged(Ok(<<>>),
                [b EXCEPT !.ops = Append(@, DeleteRangeOp(m, ef.bytes, et.bytes))])

\* DBBatch::delete_range
delete_range(c, b, m, from, to) ==
    LET ef == serialize_key(from)
        et == serialize_key(to)
    IN
    IF CrossDb(b, m) THEN Staged(Err("CrossDBBatch"), NoBatch)
    ELSE IF ~ef.ok \/ ~et.ok THEN Staged(Err("SerializationError"), NoBatch)
    ELSE IF ~cf_handle(c, m) THEN Staged(Panic, NoBatch)
    ELSE Staged(Ok(<<>>),
                [b EXCEPT !.ops = Append(@, DeleteRangeOp(m, ef.bytes, et.bytes))])

\* one staged operation applied to the column families of engine db
ApplyOp(c, db, op) ==
    [c EXCEPT ![db][op.cf].data =
        IF op.kind = "put" THEN PutBytes(@, op.key, op.val)
        ELSE IF op.kind = "delete" THEN DeleteBytes(@, op.key)
        ELSE DeleteRangeBytes(@, op.key, op.val)]

\* the staged operations applied in the order they were staged
RECURSIVE ApplyOps(_, _, _)
ApplyOps(c, db, ops) ==
    IF ops = <<>> THEN c ELSE ApplyOps(ApplyOp(c, db, Head(ops)), db, Tail(ops))

\* rocksdb refuses a WriteBatch that names a column family id it does not
\* know, or a range whose end key comes before its start key
Refused(ops) ==
    \E i \in 1..Len(ops) :
       \/ ops[i].stale
       \/ ops[i].kind = "delete_range" /\ BytesLess(ops[i].val, ops[i].key)

\* a write that commits column family by column family and stops at the
\* first the engine refuses: what is committed before stays
write_per_cf(c, b, fault) ==
    LET opsOf(n) == SelectSeq(b.ops, LAMBDA op : op.cf = n)
        afterB == ApplyOps(c, b.db, opsOf("B"))
    IN
    IF fault \/ Refused(opsOf("B")) THEN Outcome(Err("RocksDBError"), c)
    ELSE IF Refused(opsOf("A")) THEN Outcome(Err("RocksDBError"), afterB)
    ELSE Outcome(Ok(<<>>), ApplyOps(afterB, b.db, opsOf("A")))

\* a write that applies the staged operations last to first
write_reversed(c, b, fault) ==
    LET n == Len(b.ops) IN
    IF fault \/ Refused(b.ops) THEN Outcome(Err("RocksDBError"), c)
    ELSE Outcome(Ok(<<>>), ApplyOps(c, b.db, [i \in 1..n |-> b.ops[n + 1 - i]]))

\* DBBatch::write: one call of rocksdb's write, which applies the whole
\* WriteBatch or, on an error, nothing
write(c, b, fault) ==
    IF fault \/ Refused(b.ops) THEN Outcome(Err("RocksDBError"), c)
    ELSE Outcome(Ok(<<>>), ApplyOps(c, b.db, b.ops))

\* a Drop that commits what the batch holds
drop_commits(c, b) == IF Refused(b.ops) THEN c ELSE ApplyOps(c, b.db, b.ops)

\* a DBBatch going out of scope: DBBatch has no Drop of its own, the
\* WriteBatch is freed and the engine is not touched
drop(c, b) == c

---------------------------------------------------------------------------
(* DBMap::reopen and DBMap::contains_key.                                  *)

\* a reopen that does not look the column family up
reopen_unchecked(c, db, opt_cf) ==
    LET cf_key == IF opt_cf = <<>> THEN DEFAULT_COLUMN_FAMILY_NAME ELSE opt_cf[1] IN
    Ok(<<[rocksdb |-> db, cf |-> cf_key]>>)

\* DBMap::reopen; opt_cf is <<>> for None and <<name>> for Some(name).  The
\* DBMap returned holds a clone of the Arc it was given and the name.
reopen(c, db, opt_cf) ==
    LET cf_key == IF opt_cf = <<>> THEN DEFAULT_COLUMN_FAMILY_NAME ELSE opt_cf[1] IN
    IF cf_key \in DOMAIN c[db] /\ c[db][cf_key].live
      THEN Ok(<<[rocksdb |-> db, cf |-> cf_key]>>)
      ELSE Err("UnregisteredColumn")

\* a contains_key that asks the engine whether the key is there and never
\* decodes the value
contains_key_raw(c, m, k, fault) ==
    LET ek == serialize_key(k) IN
    IF ~ek.ok THEN Err("SerializationError")
    ELSE IF ~cf_handle(c, m) THEN Panic
    ELSE IF fault THEN Err("RocksDBError")
    ELSE Ok(<<ek.bytes \in DOMAIN CfData(c, m)>>)

\* DBMap::contains_key: self.get(key).map(|v| v.is_some())
contains_key(c, m, k, fault) ==
    LET r == get(c, m, k, fault) IN
    IF r.tag = "Ok" THEN Ok(<<r.val[1].some>>) ELSE r

---------------------------------------------------------------------------
(* Cursors.  iter(), keys() and values() make a raw iterator of the engine *)
(* and seek it to the first key; Iter, Keys and Values wrap it.  A raw     *)
(* iterator reads the column family as it was when the iterator was made.  *)

\* the keys of S in the order of the bytewise comparator
RECURSIVE SortBytes(_)
SortBytes(S) ==
    IF S = {} THEN <<>>
    ELSE LET least == CHOOSE x \in S : \A y \in S : BytesLeq(x, y) IN
         <<least>> \o SortBytes(S \ {least})

\* rocksdb.raw_iterator_cf: the entries of the column family in key order,
\* and a position that is not valid yet
raw_iterator_cf(c, m) ==
    LET d == CfData(c, m)
        ks == SortBytes(DOMAIN d)
    IN [entries |-> [i \in 1..Len(ks) |-> <<ks[i], d[ks[i]]>>], pos |-> 0]

\* an iterator left where raw_iterator_cf made it
seek_nowhere(it) == it

\* db_iter.seek_to_first()
seek_to_first(it) == [it EXCEPT !.pos = 1]

\* db_iter.valid()
valid(it) == it.pos \in 1..Len(it.entries)

\* no cursor in the caller's hands
NoCursor ==
    [open |-> FALSE, map |-> "", kind |-> "", entries |-> <<>>, pos |-> 0,
     over |-> <<>>, yielded |-> 0]

\* Iter::new / Keys::new / Values::new: the wrapper holds the raw iterator.
\* `over` and `yielded` are history: the contents of the column family when
\* the cursor was made, and how many items the cursor has yielded.
Cursor(kind, m, it) ==
    [open |-> TRUE, map |-> m, kind |-> kind, entries |-> it.entries, pos |-> it.pos,
     over |-> <<>>, yielded |-> 0]

\* DBMap::iter
iter(c, m) == Cursor("iter", m, seek_to_first(raw_iterator_cf(c, m)))
\* DBMap::keys
keys(c, m) == Cursor("keys", m, seek_to_first(raw_iterator_cf(c, m)))
\* DBMap::values
values(c, m) == Cursor("values", m, seek_to_first(raw_iterator_cf(c, m)))

\* the number a sequence of bytes writes, most significant byte first
RECURSIVE FromBigEndian(_)
FromBigEndian(bytes) ==
    IF bytes = <<>> THEN 0
    ELSE 256 * FromBigEndian(SubSeq(bytes, 1, Len(bytes) - 1)) + bytes[Len(bytes)]

\* config.deserialize(key bytes), for K = i16
deserialize_key(bytes) ==
    LET n == FromBigEndian(bytes) IN
    IF n >= (256 ^ KeyWidth) \div 2 THEN n - 256 ^ KeyWidth ELSE n

\* next() of Iter, Keys and Values: at the end it reports exhaustion and
\* stays there; otherwise it decodes the current entry (Keys the key only,
\* Values the value only), moves one key forward and returns the item, or
\* the decoding error
next(cur) ==
    IF ~valid(cur) THEN [res |-> Ok(<<None>>), cursor |-> cur]
    ELSE LET e == cur.entries[cur.pos]
             k == deserialize_key(e[1])
             v == deserialize_value(MapVTy(cur.map), e[2])
             adv == [cur EXCEPT !.pos = @ + 1]
         IN
         IF cur.kind # "keys" /\ ~v.ok
           THEN [res |-> Err("SerializationError"), cursor |-> adv]
           ELSE [res |-> Ok(<<Some(IF cur.kind = "iter" THEN <<k, v.v>>
                                   ELSE IF cur.kind = "keys" THEN <<k>>
                                   ELSE <<v.v>>)>>),
                 cursor |-> adv]

---------------------------------------------------------------------------
(* open_cf.  The database at a path is what an earlier run left there: its *)
(* column families, in the order of the manifest, and their contents.      *)

\* a path with no database
NoDb == [exists |-> FALSE, names |-> <<>>, data |-> <<>>]

\* the name is an element of the list
Contains(list, name) == \E i \in 1..Len(list) : list[i] = name

\* list_cf(&options, &path).ok().unwrap_or_default(): the names at the path,
\* and nothing when there is no database or the listing fails
list_cf(disk, fault) == IF disk.exists /\ ~fault THEN disk.names ELSE <<>>

\* the loop over opt_cfs without the test of cfs.contains
RECURSIVE PushAll(_, _)
PushAll(list, opt_cfs) ==
    IF opt_cfs = <<>> THEN list
    ELSE PushAll(Append(list, Head(opt_cfs)), Tail(opt_cfs))

\* the loop over opt_cfs: a name is pushed when the list does not hold it
RECURSIVE PushMissing(_, _)
PushMissing(list, opt_cfs) ==
    IF opt_cfs = <<>> THEN list
    ELSE PushMissing(IF Contains(list, Head(opt_cfs)) THEN list
                     ELSE Append(list, Head(opt_cfs)),
                     Tail(opt_cfs))

\* rocksdb's open_cf under create_if_missing and
\* create_missing_column_families: it refuses a list that names a column
\* family twice or that leaves out one the database has (the default one
\* is always opened), keeps what is there and creates the rest empty
rocksdb_open_cf(disk, list, fault) ==
    LET names == {list[i] : i \in 1..Len(list)} \cup {DEFAULT_COLUMN_FAMILY_NAME}
        there == IF disk.exists THEN {disk.names[i] : i \in 1..Len(disk.names)} ELSE {}
    IN
    IF fault THEN Err("RocksDBError")
    ELSE IF \E i, j \in 1..Len(list) : i # j /\ list[i] = list[j] THEN Err("RocksDBError")
    ELSE IF ~(there \subseteq names) THEN Err("RocksDBError")
    ELSE Ok(<<[n \in names |->
                 IF n \in there THEN [live |-> TRUE, data |-> disk.data[n]] ELSE EmptyCf]>>)

\* an open_cf that pushes every requested name
open_cf_push_all(disk, opt_cfs, listFault, openFault) ==
    rocksdb_open_cf(disk, PushAll(list_cf(disk, listFault), opt_cfs), openFault)

\* open_cf(path, db_options, opt_cfs); listFault and openFault are the
\* engine errors of list_cf and of the open
open_cf(disk, opt_cfs, listFault, openFault) ==
    rocksdb_open_cf(disk, PushMissing(list_cf(disk, listFault), opt_cfs), openFault)

---------------------------------------------------------------------------
(* The state a program is in after opening the two engines.                *)

Init ==
    /\ cfs = [e \in Engines |-> open_cf(NoDb, <<"A", "B">>, FALSE, FALSE).val[1]]
    /\ batch = NoBatch
    /\ clearPc = [m \in Maps |-> "idle"]
    /\ cursor = NoCursor
    /\ last = Call("open_cf", "", <<"A", "B">>, <<NoDb>>, <<FALSE, FALSE>>,
                   open_cf(NoDb, <<"A", "B">>, FALSE, FALSE))

---------------------------------------------------------------------------
(* The steps of DBMap. *)

Insert(m, k, v, fault) ==
    LET o == insert(cfs, m, k, v, fault) IN
    /\ cfs' = o.cfs
    /\ last' = Call("insert", m, <<k>>, <<v>>, fault, o.res)
    /\ UNCHANGED <<batch, clearPc, cursor>>

Remove(m, k, fault) ==
    LET o == remove(cfs, m, k, fault) IN
    /\ cfs' = o.cfs
    /\ last' = Call("remove", m, <<k>>, <<>>, fault, o.res)
    /\ UNCHANGED <<batch, clearPc, cursor>>

Get(m, k, fault) ==
    /\ last' = Call("get", m, <<k>>, <<>>, fault, get(cfs, m, k, fault))
    /\ UNCHANGED <<cfs, batch, clearPc, cursor>>

MultiGet(m, ks, faultAt) ==
    /\ last' = Call("multi_get", m, ks, <<>>, faultAt, multi_get(cfs, m, ks, faultAt))
    /\ UNCHANGED <<cfs, batch, clearPc, cursor>>

\* A thread enters m.clear() and drops the column family.  The operations a
\* batch staged on the dropped column family keep its old id: they are stale.
ClearDrop(m, fault) ==
    LET o == drop_cf(cfs, m, fault) IN
    /\ clearPc[m] = "idle"
    /\ cfs' = o.cfs
    /\ batch' = IF o.res.tag = "Ok" /\ batch.db = MapDb(m)
                  THEN [batch EXCEPT !.ops =
                          [i \in 1..Len(batch.ops) |->
                             IF batch.ops[i].cf = MapCf(m)
                               THEN [batch.ops[i] EXCEPT !.stale = TRUE]
                               ELSE batch.ops[i]]]
                  ELSE batch
    /\ clearPc' = [clearPc EXCEPT ![m] = "dropped"]
    /\ last' = Call("drop_cf", m, <<>>, <<>>, fault, o.res)
    /\ UNCHANGED cursor

\* The thread inside m.clear() recreates the column family and returns.
ClearCreate(m, fault) ==
    LET o == create_cf(cfs, m, fault) IN
    /\ clearPc[m] = "dropped"
    /\ cfs' = o.cfs
    /\ clearPc' = [clearPc EXCEPT ![m] = "idle"]
    /\ last' = Call("clear", m, <<>>, <<>>, fault, o.res)
    /\ UNCHANGED <<batch, cursor>>

\* DBMap::reopen on the engine db
Reopen(db, opt_cf) ==
    /\ last' = Call("reopen", "", opt_cf, <<db>>, FALSE, reopen(cfs, db, opt_cf))
    /\ UNCHANGED <<cfs, batch, clearPc, cursor>>

ContainsKey(m, k, fault) ==
    /\ last' = Call("contains_key", m, <<k>>, <<>>, fault, contains_key(cfs, m, k, fault))
    /\ UNCHANGED <<cfs, batch, clearPc, cursor>>

---------------------------------------------------------------------------
(* The steps of a cursor.  A caller advances at most one cursor at a time. *)

\* iter(), keys() and values() start with self.cf(): when the column family
\* is gone the call panics and makes no cursor
NewCursor(kind, m, cur) ==
    /\ IF cf_handle(cfs, m)
         THEN /\ cursor' = [cur EXCEPT !.over = CfData(cfs, m)]
              /\ last' = Call(kind, m, <<>>, <<>>, FALSE, Ok(<<>>))
         ELSE /\ cursor' = cursor
              /\ last' = Call(kind, m, <<>>, <<>>, FALSE, Panic)
    /\ UNCHANGED <<cfs, batch, clearPc>>

Iter(m) == NewCursor("iter", m, iter(cfs, m))

Keys(m) == NewCursor("keys", m, keys(cfs, m))

Values(m) == NewCursor("values", m, values(cfs, m))

\* the result of a next() that reports exhaustion
Exhausted(res) == res.tag = "Ok" /\ ~res.val[1].some

CursorNext ==
    LET o == next(cursor) IN
    /\ cursor.open
    /\ cursor' = [o.cursor EXCEPT !.yielded = IF Exhausted(o.res) THEN @ ELSE @ + 1]
    /\ last' = Call("next", cursor.map, <<>>, <<>>, FALSE, o.res)
    /\ UNCHANGED <<cfs, batch, clearPc>>

---------------------------------------------------------------------------
(* The steps of DBBatch.  A caller holds at most one batch at a time.      *)

\* DBMap::batch
NewBatch(m) ==
    /\ ~batch.open
    /\ batch' = new(MapDb(m))
    /\ last' = Call("batch", m, <<>>, <<>>, FALSE, Ok(<<>>))
    /\ UNCHANGED <<cfs, clearPc, cursor>>

\* a failing staging call drops the batch it was given
StagingStep(op, m, ks, vals, o) ==
    /\ batch' = o.batch
    /\ cfs' = IF o.res.tag = "Ok" THEN cfs ELSE drop(cfs, batch)
    /\ last' = BatchCall(op, m, ks, vals, FALSE, batch.ops, o.res)
    /\ UNCHANGED <<clearPc, cursor>>

InsertBatch(m, elems) ==
    /\ batch.open
    /\ Len(batch.ops) + Len(elems) <= MaxOps
    /\ StagingStep("insert_batch", m,
                   [i \in 1..Len(elems) |-> elems[i][1]],
                   [i \in 1..Len(elems) |-> elems[i][2]],
                   insert_batch(cfs, batch, m, elems))

DeleteBatch(m, ks) ==
    /\ batch.open
    /\ Len(batch.ops) + Len(ks) <= MaxOps
    /\ StagingStep("delete_batch", m, ks, <<>>, delete_batch(cfs, batch, m, ks))

DeleteRange(m, from, to) ==
    /\ batch.open
    /\ Len(batch.ops) + 1 <= MaxOps
    /\ StagingStep("delete_range", m, <<from, to>>, <<>>,
                   delete_range(cfs, batch, m, from, to))

Write(fault) ==
    LET o == write(cfs, batch, fault) IN
    /\ batch.open
    /\ cfs' = o.cfs
    /\ batch' = NoBatch
    /\ last' = BatchCall("write", "", <<>>, <<>>, fault, batch.ops, o.res)
    /\ UNCHANGED <<clearPc, cursor>>

\* the caller lets its batch go out of scope without writing it
DropBatch ==
    /\ batch.open
    /\ cfs' = drop(cfs, batch)
    /\ batch' = NoBatch
    /\ last' = BatchCall("drop", "", <<>>, <<>>, FALSE, batch.ops, Ok(<<>>))
    /\ UNCHANGED <<clearPc, cursor>>

---------------------------------------------------------------------------
(* The inputs callers pass. *)

\* the keys stored through each handle
StoredKeys(m) == IF MapCf(m) = "A" /\ MapDb(m) = "db1" THEN {-1, 1, 256} ELSE {1}
\* the keys passed to a call: the stored ones and, on A, one that fails to encode
CallKeys(m) == IF m = "mA" THEN StoredKeys(m) \cup {UnencodableKey} ELSE StoredKeys(m)
\* the values written through each handle (mAb writes true)
CallVals(m) == IF m = "mA" THEN {1, 2} ELSE {1}

\* the lists of at most n elements of S
RECURSIVE SeqsUpTo(_, _)
SeqsUpTo(S, n) ==
    IF n = 0 THEN {<<>>}
    ELSE LET shorter == SeqsUpTo(S, n - 1) IN
         shorter \cup {Append(s, x) : s \in shorter, x \in S}

\* the handles whose column family a thread clears
ClearMaps == {"mA"}
\* the handles of the point operations: those of engine db1
PointMaps == {"mA", "mAb", "mB"}
\* the keys passed to multi_get
MultiGetKeys(m) ==
    IF m = "mA" THEN {1, 256, UnencodableKey} ELSE IF m = "mAb" THEN {1, 256} ELSE {1}

\* the handles passed to the staging calls
StageMaps == {"mA", "mB", "mX"}
\* the pairs passed to insert_batch
StagePairs(m) ==
    IF m = "mA" THEN {<<1, 1>>, <<1, 2>>, <<256, 1>>, <<UnencodableKey, 1>>}
    ELSE IF m = "mX" THEN {<<1, 1>>, <<UnencodableKey, 1>>}
    ELSE {<<1, 1>>}
\* the keys passed to delete_batch
StageKeys(m) == IF m = "mA" THEN {1, UnencodableKey} ELSE IF m = "mB" THEN {1} ELSE {}
\* the bounds passed to delete_range
StageRanges(m) ==
    IF m = "mA" THEN {<<1, 256>>, <<256, 257>>, <<1, -1>>, <<-1, 256>>}
    ELSE IF m = "mX" THEN {<<1, 1>>}
    ELSE {}

NextMap ==
    \/ \E m \in PointMaps, f \in BOOLEAN :
         \E k \in CallKeys(m), v \in CallVals(m) : Insert(m, k, v, f)
    \/ \E m \in PointMaps, f \in BOOLEAN : \E k \in CallKeys(m) : Remove(m, k, f)
    \/ \E m \in PointMaps, f \in BOOLEAN : \E k \in CallKeys(m) : Get(m, k, f)
    \/ \E m \in PointMaps : \E ks \in SeqsUpTo(MultiGetKeys(m), MaxKeys) :
         \E faultAt \in 0..Len(ks) : MultiGet(m, ks, faultAt)
    \/ \E m \in ClearMaps, f \in BOOLEAN : ClearDrop(m, f)
    \/ \E m \in ClearMaps, f \in BOOLEAN : ClearCreate(m, f)

SpecMap == Init /\ [][NextMap]_vars

NextBatch ==
    \/ \E m \in StageMaps : NewBatch(m)
    \/ \E m \in StageMaps : \E elems \in SeqsUpTo(StagePairs(m), MaxOps) :
         InsertBatch(m, elems)
    \/ \E m \in StageMaps : \E ks \in SeqsUpTo(StageKeys(m), MaxOps) :
         DeleteBatch(m, ks)
    \/ \E m \in StageMaps : \E r \in StageRanges(m) : DeleteRange(m, r[1], r[2])
    \/ \E f \in BOOLEAN : Write(f)
    \/ DropBatch
    \* a clear() runs beside the batch; the engine errors of clear() are
    \* explored in SpecMap
    \/ \E m \in ClearMaps : ClearDrop(m, FALSE)
    \/ \E m \in ClearMaps : ClearCreate(m, FALSE)

SpecBatch == Init /\ [][NextBatch]_vars

\* the handles of the column family A of db1, which read it as u8 and as bool
ViewMaps == {"mA", "mAb"}
\* the keys stored under the cursors: byte order puts 256 before -1
ViewKeys == {-1, 256}
\* the names passed to reopen: none, a registered one, one never registered
ReopenNames == {<<>>, <<"A">>, <<"C">>}

\* Readers and cursors beside writers and a clear() of the same column
\* family; the engine errors of insert are explored in SpecMap.
NextView ==
    \/ \E m \in ViewMaps : \E k \in ViewKeys, v \in CallVals(m) : Insert(m, k, v, FALSE)
    \/ \E m \in ClearMaps, f \in BOOLEAN : ClearDrop(m, f)
    \/ \E m \in ClearMaps, f \in BOOLEAN : ClearCreate(m, f)
    \/ \E db \in Engines, opt_cf \in ReopenNames : Reopen(db, opt_cf)
    \/ \E m \in ViewMaps, f \in BOOLEAN :
         \E k \in ViewKeys \cup {UnencodableKey} : ContainsKey(m, k, f)
    \/ \E m \in ViewMaps : Iter(m)
    \/ \E m \in ViewMaps : Keys(m)
    \/ \E m \in ViewMaps : Values(m)
    \/ CursorNext

SpecView == Init /\ [][NextView]_vars

\* A caller serialises two keys (two calls of config.serialize).
Serialize(a, b) ==
    /\ last' = Call("serialize", "", <<a, b>>, <<>>, FALSE,
                    Ok(<<serialize_key(a).bytes, serialize_key(b).bytes>>))
    /\ UNCHANGED <<cfs, batch, clearPc, cursor>>

\* i16 keys around the byte and sign boundaries
CodecKeys == {-32768, -257, -256, -2, -1, 0, 1, 2, 255, 256, 257, 32767}

NextCodec == \E a \in CodecKeys, b \in CodecKeys : Serialize(a, b)

SpecCodec == Init /\ [][NextCodec]_vars

\* the pairs, keys and bounds staged beside the point operations
IsoPairs == {<<1, 1>>}
IsoKeys == {1}
IsoRanges == {<<1, 256>>}

\* Point operations and clear() through every handle beside a batch over the
\* same column families, all on one key.
NextIso ==
    \/ \E m \in Maps : \E k \in IsoKeys, v \in CallVals(m) : Insert(m, k, v, FALSE)
    \/ \E m \in Maps : \E k \in IsoKeys : Remove(m, k, FALSE)
    \/ \E m \in ClearMaps : ClearDrop(m, FALSE)
    \/ \E m \in ClearMaps : ClearCreate(m, FALSE)
    \/ \E m \in StageMaps : NewBatch(m)
    \/ \E m \in StageMaps : \E elems \in SeqsUpTo(IsoPairs, MaxOps) : InsertBatch(m, elems)
    \/ \E m \in StageMaps : \E ks \in SeqsUpTo(IsoKeys, MaxOps) : DeleteBatch(m, ks)
    \/ \E m \in StageMaps : \E r \in IsoRanges : DeleteRange(m, r[1], r[2])
    \/ Write(FALSE)

SpecIso == Init /\ [][NextIso]_vars

\* A program opens the database at a path.
OpenCf(disk, opt_cfs, listFault, openFault) ==
    /\ last' = Call("open_cf", "", opt_cfs, <<disk>>, <<listFault, openFault>>,
                    open_cf(disk, opt_cfs, listFault, openFault))
    /\ UNCHANGED <<cfs, batch, clearPc, cursor>>

\* the database a run that opened the listed column families left, with one
\* key in its column family A
DiskOf(names) ==
    [exists |-> TRUE, names |-> names,
     data |-> [n \in {names[i] : i \in 1..Len(names)} |->
                 IF n = "A" THEN PutBytes(<<>>, serialize_key(1).bytes, serialize_value(1))
                 ELSE <<>>]]
\* the paths opened: none, and databases of earlier runs
Disks ==
    {NoDb, DiskOf(<<DEFAULT_COLUMN_FAMILY_NAME>>), DiskOf(<<DEFAULT_COLUMN_FAMILY_NAME, "A">>),
     DiskOf(<<DEFAULT_COLUMN_FAMILY_NAME, "B", "A">>)}
\* the names requested
OpenNames == {"A", "B", "C"}

NextOpen ==
    \E disk \in Disks, listFault \in BOOLEAN, openFault \in BOOLEAN :
       \E opt_cfs \in SeqsUpTo(OpenNames, MaxNames) :
          OpenCf(disk, opt_cfs, listFault, openFault)

SpecOpen == Init /\ [][NextOpen]_vars

Next == NextMap \/ NextBatch \/ NextView \/ NextIso \/ NextOpen \/ NextCodec

Spec == Init /\ [][Next]_vars

---------------------------------------------------------------------------
(* The claims.                                                             *)

StagingOps == {"insert_batch", "delete_batch", "delete_range"}

CrossDBBatch == Err("CrossDBBatch")

\* the staged operation op touches the key kb of its column family
Covers(op, kb) ==
    IF op.kind = "delete_range"
      THEN BytesLeq(op.key, kb) /\ BytesLess(kb, op.val)
      ELSE op.key = kb

\* In c2 every operation of ops is visible, and nothing else differs from
\* c: a key an operation touches is as the last operation touching it
\* leaves it, every other key of engine db is as in c.
AllVisible(ops, db, c, c2) ==
    /\ \A e \in Engines \ {db} : c2[e] = c[e]
    /\ \A n \in CFNames :
         LET before == c[db][n].data
             after == c2[db][n].data
             touched == {i \in 1..Len(ops) : ops[i].cf = n}
             universe == (DOMAIN before) \cup (DOMAIN after)
                           \cup {ops[i].key : i \in touched}
         IN
         /\ c2[db][n].live = c[db][n].live
         /\ \A kb \in universe :
              LET on == {i \in touched : Covers(ops[i], kb)} IN
              IF on = {}
                THEN /\ (kb \in DOMAIN after) = (kb \in DOMAIN before)
                     /\ kb \in DOMAIN before => after[kb] = before[kb]
                ELSE LET i == CHOOSE i \in on : \A j \in on : j <= i IN
                     IF ops[i].kind = "put"
                       THEN kb \in DOMAIN after /\ after[kb] = ops[i].val
                       ELSE kb \notin DOMAIN after

\* C1: write() commits the staged operations of a batch as one unit: a
\* step of write either returns Ok and leaves every staged operation
\* visible, in every column family it targets, or returns an error and
\* leaves every column family as it was.  No step shows a part of a batch.
C1_WriteIsAtomic ==
    [][last'.op = "write" =>
         \/ last'.res.tag = "Ok" /\ AllVisible(batch.ops, batch.db, cfs, cfs')
         \/ last'.res.tag = "Err" /\ cfs' = cfs]_vars

\* C1 witness: a batch with a put on column family A and a put on column
\* family B was written, and both are there.
C1_Witness ==
    /\ last.op = "write"
    /\ last.res.tag = "Ok"
    /\ \E i, j \in 1..Len(last.self) :
         /\ last.self[i].kind = "put" /\ last.self[i].cf = "A"
         /\ last.self[j].kind = "put" /\ last.self[j].cf = "B"
         /\ last.self[i].key \in DOMAIN cfs["db1"]["A"].data
         /\ last.self[j].key \in DOMAIN cfs["db1"]["B"].data

\* C2, as the claim states it: a staging call that fails with CrossDBBatch
\* on a batch holding staged operations leaves the batch holding exactly
\* those operations, for a later write() to apply.
C2_BatchKeptOnCrossDb ==
    [][(last'.op \in StagingOps /\ last'.res = CrossDBBatch /\ Len(batch.ops) > 0) =>
         batch' = batch]_vars

\* C2, amended: a staging call that fails with CrossDBBatch stages nothing
\* and changes no column family, and it consumes the batch: the caller holds
\* no batch afterwards, so the operations staged before are discarded and
\* never applied.
C2_CrossDbConsumesBatch ==
    [][(last'.op \in StagingOps /\ last'.res = CrossDBBatch) =>
         /\ cfs' = cfs
         /\ batch' = NoBatch]_vars

\* C2 witness: a call failed with CrossDBBatch on a batch that held staged
\* operations.
C2_Witness ==
    /\ last.op \in StagingOps
    /\ last.res = CrossDBBatch
    /\ Len(last.self) > 0
    /\ ~batch.open

\* C3: a staging call fails with CrossDBBatch exactly when the handle's
\* engine is not the batch's engine, whatever the handle's column family,
\* and also when its arguments would not encode (the check comes first);
\* the rejected call stages nothing.
C3_CrossDbIffOtherEngine ==
    [][last'.op \in StagingOps =>
         /\ (last'.res = CrossDBBatch) <=> (MapDb(last'.map) # batch.db)
         /\ last'.res = CrossDBBatch => (batch'.ops = <<>> /\ cfs' = cfs)]_vars

\* C3 witness: a handle of the other engine was rejected although one of its
\* keys does not encode.
C3_Witness ==
    /\ last.op \in StagingOps
    /\ last.res = CrossDBBatch
    /\ \E i \in 1..Len(last.keys) : last.keys[i] = UnencodableKey

\* C4: staging has no effect on the engine: batch(), insert_batch,
\* delete_batch, delete_range, whether they succeed or fail, and the drop
\* of a batch, leave every column family as it was.
C4_StagingLeavesEngine ==
    [][last'.op \in StagingOps \cup {"batch", "drop"} => cfs' = cfs]_vars

\* C4 witness: a batch holding a staged put was dropped, and the key is not
\* in the column family.
C4_Witness ==
    /\ last.op = "drop"
    /\ \E i \in 1..Len(last.self) :
         /\ last.self[i].kind = "put"
         /\ ~last.self[i].stale
         /\ last.self[i].key \notin DOMAIN cfs["db1"][last.self[i].cf].data

\* C5: the key encoding preserves order: a < b exactly when the bytes of a
\* come before the bytes of b.
C5_OrderPreserving ==
    last.op = "serialize" =>
        ((last.keys[1] < last.keys[2]) <=> BytesLess(last.res.val[1], last.res.val[2]))

\* the typed keys the claims about ranges speak of
TypedKeys == {-1, 1, 256, 257}

\* C6: after the write of a batch that holds one delete_range(map, from, to),
\* the keys of [from, to) are absent, and a key that is `to`, below `from`
\* or above `to` is as it was.
C6_DeleteRangeByKeyOrder ==
    [][(last'.op = "write" /\ last'.res.tag = "Ok" /\ Len(batch.ops) = 1
          /\ batch.ops[1].kind = "delete_range") =>
         LET op == batch.ops[1]
             before == cfs[batch.db][op.cf].data
             after == cfs'[batch.db][op.cf].data
         IN
         \A from \in TypedKeys, to \in TypedKeys, k \in TypedKeys :
            LET kb == serialize_key(k).bytes IN
            (serialize_key(from).bytes = op.key /\ serialize_key(to).bytes = op.val) =>
               /\ (from <= k /\ k < to) => kb \notin DOMAIN after
               /\ (k = to \/ k < from \/ k > to) /\ kb \in DOMAIN before =>
                    kb \in DOMAIN after /\ after[kb] = before[kb]]_vars

\* C7: on one DBMap the last writer wins: after insert(k, v) returns Ok,
\* get(k) is Some(v); after remove(k) returns Ok, get(k) is None; neither
\* changes what get returns for another key; get of a key never inserted is
\* None, not an error; remove of an absent key returns Ok and changes nothing.
C7_LastWriterWins ==
    /\ \A m \in PointMaps : \A k \in StoredKeys(m) : get(cfs, m, k, FALSE) = Ok(<<None>>)
    /\ [][LET m == last'.map
              k == last'.keys[1]
              others == {k2 \in StoredKeys(m) : k2 # k}
          IN
          /\ (last'.op = "insert" /\ last'.res.tag = "Ok") =>
                /\ get(cfs', m, k, FALSE) = Ok(<<Some(last'.vals[1])>>)
                /\ \A k2 \in others : get(cfs', m, k2, FALSE) = get(cfs, m, k2, FALSE)
          /\ (last'.op = "remove" /\ last'.res.tag = "Ok") =>
                /\ get(cfs', m, k, FALSE) = Ok(<<None>>)
                /\ \A k2 \in others : get(cfs', m, k2, FALSE) = get(cfs, m, k2, FALSE)
          /\ (last'.op = "remove" /\ ~last'.fault /\ get(cfs, m, k, FALSE) = Ok(<<None>>)) =>
                /\ last'.res.tag = "Ok"
                /\ cfs' = cfs]_vars

\* C7 witness: an insert of the value 2 returned Ok on a column family that
\* holds another key, and get returns Some(2).
C7_Witness ==
    /\ last.op = "insert"
    /\ last.res.tag = "Ok"
    /\ last.vals = <<2>>
    /\ get(cfs, last.map, last.keys[1], FALSE) = Ok(<<Some(2)>>)
    /\ Cardinality(DOMAIN CfData(cfs, last.map)) > 1

\* C8: a multi_get that returns a list returns one of the length of keys
\* whose position i is what get(keys[i]) returns, Some or None; and it
\* returns a list whenever the column family exists, the engine reports no
\* error and get returns Ok for every key.
C8_MultiGetPositional ==
    last.op = "multi_get" =>
        LET m == last.map
            ks == last.keys
            gets == [i \in 1..Len(ks) |-> get(cfs, m, ks[i], FALSE)]
        IN
        /\ last.res.tag = "Ok" =>
              /\ Len(last.res.val) = Len(ks)
              /\ \A i \in 1..Len(ks) : gets[i] = Ok(<<last.res.val[i]>>)
        /\ (cf_handle(cfs, m) /\ last.fault = 0 /\ \A i \in 1..Len(ks) : gets[i].tag = "Ok") =>
              last.res.tag = "Ok"

\* C8 witness: multi_get of an absent key followed by a present one returned
\* [None, Some(_)].
C8_Witness ==
    /\ last.op = "multi_get"
    /\ last.res.tag = "Ok"
    /\ Len(last.res.val) >= 2
    /\ ~last.res.val[1].some
    /\ last.res.val[2].some

\* position i of a multi_get fails: its key does not encode, the engine
\* reports an error for it, or its stored bytes do not decode
KeyFails(c, m, ks, i, faultAt) ==
    LET ek == serialize_key(ks[i]) IN
    \/ ~ek.ok
    \/ i = faultAt
    \/ /\ ek.bytes \in DOMAIN CfData(c, m)
       /\ ~deserialize_value(MapVTy(m), CfData(c, m)[ek.bytes]).ok

\* C9: a multi_get one of whose keys fails returns no list, shortened or
\* with None in the place of the key: it returns an error when the column
\* family exists.
C9_MultiGetFailsWhole ==
    (last.op = "multi_get"
       /\ \E i \in 1..Len(last.keys) : KeyFails(cfs, last.map, last.keys, i, last.fault)) =>
        /\ last.res.tag # "Ok"
        /\ cf_handle(cfs, last.map) => last.res.tag = "Err"

\* C9 witness: the bytes stored for the second key do not decode, the first
\* key is fine, and the call returned an error.
C9_Witness ==
    /\ last.op = "multi_get"
    /\ last.fault = 0
    /\ Len(last.keys) >= 2
    /\ ~KeyFails(cfs, last.map, last.keys, 1, 0)
    /\ KeyFails(cfs, last.map, last.keys, 2, 0)
    /\ serialize_key(last.keys[2]).ok
    /\ last.res.tag = "Err"

\* C10: no call panics.
C10_NoPanic == last.res.tag # "Panic"

\* the handles bound to the column family of the handle m
SameCf(m) == {h \in Maps : MapDb(h) = MapDb(m) /\ MapCf(h) = MapCf(m)}

\* C11: reopen(db, name) changes no engine; it fails with UnregisteredColumn
\* when name, or the default column family when no name is given, is not a
\* column family of db, and otherwise returns a DBMap on the engine db bound
\* to that name.
C11_ReopenChecksRegistration ==
    [][last'.op = "reopen" =>
         LET db == last'.vals[1]
             name == IF last'.keys = <<>> THEN DEFAULT_COLUMN_FAMILY_NAME ELSE last'.keys[1]
             registered == name \in CFNames /\ cfs[db][name].live
         IN
         /\ cfs' = cfs
         /\ ~registered => (last'.res.tag = "Err" /\ last'.res.kind = "UnregisteredColumn")
         /\ registered => /\ last'.res.tag = "Ok"
                          /\ last'.res.val[1].rocksdb = db
                          /\ last'.res.val[1].cf = name]_vars

\* C11 witness: reopen with a name no open_cf ever registered failed with
\* UnregisteredColumn.
C11_Witness ==
    /\ last.op = "reopen"
    /\ last.keys = <<"C">>
    /\ last.res.tag = "Err"
    /\ last.res.kind = "UnregisteredColumn"

\* C12: when clear() returns Ok the column family exists and is empty: get
\* of every key, through every handle bound to it, returns None, and a new
\* cursor of each kind reports exhaustion at its first next().
C12_ClearLeavesEmpty ==
    [][(last'.op = "clear" /\ last'.res.tag = "Ok") =>
         LET m == last'.map IN
         /\ cf_handle(cfs', m)
         /\ CfData(cfs', m) = <<>>
         /\ \A h \in SameCf(m) : \A k \in StoredKeys(m) :
              LET g == get(cfs', h, k, FALSE) IN g.tag = "Ok" /\ ~g.val[1].some
         /\ Exhausted(next(iter(cfs', m)).res)
         /\ Exhausted(next(keys(cfs', m)).res)
         /\ Exhausted(next(values(cfs', m)).res)]_vars

\* C12 witness: clear() returned Ok, and a cursor made before it still
\* stands on the first of the keys the column family held.
C12_Witness ==
    /\ last.op = "clear"
    /\ last.res.tag = "Ok"
    /\ CfData(cfs, last.map) = <<>>
    /\ cursor.open
    /\ cursor.map \in SameCf(last.map)
    /\ cursor.yielded = 0
    /\ Len(cursor.entries) > 0

\* C13: a cursor over a column family that held N keys when it was made
\* yields N times, the i-th time for the i-th key in the byte order of the
\* encoded keys (the item, or the error of decoding it), and from then on
\* every next() reports exhaustion and leaves the cursor as it is.
C13_CursorYieldsAllThenEnds ==
    [][last'.op = "next" =>
         LET sorted == SortBytes(DOMAIN cursor.over)
             i == cursor.yielded + 1
         IN
         IF i <= Len(sorted)
           THEN /\ ~Exhausted(last'.res)
                /\ cursor'.yielded = i
                /\ last'.res.tag = "Ok" =>
                     LET item == last'.res.val[1].v IN
                     /\ cursor.kind \in {"iter", "keys"} =>
                          serialize_key(item[1]).bytes = sorted[i]
                     /\ cursor.kind \in {"iter", "values"} =>
                          serialize_value(item[Len(item)]) = cursor.over[sorted[i]]
                /\ last'.res.tag = "Err" =>
                     /\ cursor.kind # "keys"
                     /\ ~deserialize_value(MapVTy(cursor.map), cursor.over[sorted[i]]).ok
           ELSE /\ Exhausted(last'.res)
                /\ cursor' = cursor]_vars

\* C13 witness: a cursor over the keys 256 and -1 has yielded twice and its
\* third next() reported exhaustion.
C13_Witness ==
    /\ last.op = "next"
    /\ Exhausted(last.res)
    /\ cursor.yielded = 2
    /\ DOMAIN cursor.over = {serialize_key(256).bytes, serialize_key(-1).bytes}

\* C16: contains_key(k) returns Ok(true) exactly when get(k) returns
\* Ok(Some(_)), Ok(false) exactly when get(k) returns Ok(None), and the
\* error of get(k) exactly when get(k) returns an error.
C16_ContainsKeyIsGetIsSome ==
    last.op = "contains_key" =>
        LET g == get(cfs, last.map, last.keys[1], last.fault)
            r == last.res
        IN
        /\ (r.tag = "Ok" /\ r.val[1]) <=> (g.tag = "Ok" /\ g.val[1].some)
        /\ (r.tag = "Ok" /\ ~r.val[1]) <=> (g.tag = "Ok" /\ ~g.val[1].some)
        /\ (r.tag = "Err") <=> (g.tag = "Err")
        /\ r.tag = "Err" => r.kind = g.kind

\* C16 witness: contains_key returned the decoding error of get for a key
\* that is in the column family.
C16_Witness ==
    /\ last.op = "contains_key"
    /\ ~last.fault
    /\ last.res.tag = "Err"
    /\ serialize_key(last.keys[1]).ok
    /\ serialize_key(last.keys[1]).bytes \in DOMAIN CfData(cfs, last.map)

\* C17: a successful drop inside clear() leaves the column family absent
\* while the thread is still inside clear(); and when the create that
\* follows fails, clear() returns the error and the column family stays
\* absent, its contents gone.
C17_ClearHasNoRecovery ==
    [][/\ (last'.op = "drop_cf" /\ last'.res.tag = "Ok") =>
            /\ ~cf_handle(cfs', last'.map)
            /\ clearPc'[last'.map] = "dropped"
       /\ (last'.op = "clear" /\ last'.fault /\ ~cf_handle(cfs, last'.map)) =>
            /\ last'.res.tag = "Err"
            /\ cfs' = cfs
            /\ ~cf_handle(cfs', last'.map)
            /\ clearPc'[last'.map] = "idle"]_vars

\* C17 witness: clear() has returned an error and the column family of its
\* handle does not exist.
C17_Witness ==
    /\ last.op = "clear"
    /\ last.fault
    /\ last.res.tag = "Err"
    /\ clearPc[last.map] = "idle"
    /\ ~cf_handle(cfs, last.map)

\* C14: an insert_batch or delete_batch one of whose elements does not
\* encode does not return Ok (it returns an error whenever the handle's
\* column family exists), changes no column family, and leaves no batch in
\* the caller's hands: nothing the call staged can be written later.
C14_EncodingFailureStagesNothing ==
    [][(last'.op \in {"insert_batch", "delete_batch"}
          /\ \E i \in 1..Len(last'.keys) : ~serialize_key(last'.keys[i]).ok) =>
         /\ last'.res.tag # "Ok"
         /\ cf_handle(cfs, last'.map) => last'.res.tag = "Err"
         /\ cfs' = cfs
         /\ batch' = NoBatch]_vars

\* C14 witness: an insert_batch on the batch's own engine failed on its
\* second element after encoding its first, and the caller holds no batch.
C14_Witness ==
    /\ last.op = "insert_batch"
    /\ last.res.tag = "Err"
    /\ last.res.kind = "SerializationError"
    /\ Len(last.keys) = 2
    /\ serialize_key(last.keys[1]).ok
    /\ ~serialize_key(last.keys[2]).ok
    /\ ~batch.open

\* C18: after a write() that returns Ok, a key that several staged
\* operations of one column family touch is as the last staged of them
\* leaves it: bound to the value of a put, absent after a delete or a
\* delete_range.
C18_StagedOrderDecides ==
    [][(last'.op = "write" /\ last'.res.tag = "Ok") =>
         \A n \in CFNames :
            LET ops == batch.ops
                after == cfs'[batch.db][n].data
                puts == {i \in 1..Len(ops) : ops[i].cf = n /\ ops[i].kind # "delete_range"}
            IN
            \A p \in puts :
               LET kb == ops[p].key
                   on == {i \in 1..Len(ops) : ops[i].cf = n /\ Covers(ops[i], kb)}
                   final == CHOOSE i \in on : \A j \in on : j <= i
               IN
               Cardinality(on) >= 2 =>
                  IF ops[final].kind = "put"
                    THEN kb \in DOMAIN after /\ after[kb] = ops[final].val
                    ELSE kb \notin DOMAIN after]_vars

\* C18 witness: a batch with two puts of one key with different values was
\* written, and the key has the value of the second.
C18_Witness ==
    /\ last.op = "write"
    /\ last.res.tag = "Ok"
    /\ Len(last.self) = 2
    /\ last.self[1].kind = "put"
    /\ last.self[2].kind = "put"
    /\ last.self[1].cf = last.self[2].cf
    /\ last.self[1].key = last.self[2].key
    /\ last.self[1].val # last.self[2].val
    /\ cfs["db1"][last.self[2].cf].data[last.self[2].key] = last.self[2].val

\* C15: open_cf succeeds unless list_cf or the open reports an error, and
\* the engine it returns has each column family of the path and each
\* requested name once (besides the engine's default column family, which
\* every engine has), also for a name both at the path and requested or
\* requested twice; reopen succeeds for each of them, the column families
\* of the path keep their contents and the others are empty.
C15_OpenCfUnion ==
    last.op = "open_cf" =>
        LET disk == last.vals[1]
            requested == {last.keys[i] : i \in 1..Len(last.keys)}
            there == IF disk.exists THEN {disk.names[i] : i \in 1..Len(disk.names)} ELSE {}
        IN
        /\ (~last.fault[1] /\ ~last.fault[2]) => last.res.tag = "Ok"
        /\ last.res.tag = "Ok" =>
             LET engine == last.res.val[1]
                 db == [e \in {"db1"} |-> engine]
             IN
             /\ DOMAIN engine = there \cup requested \cup {DEFAULT_COLUMN_FAMILY_NAME}
             /\ \A n \in there \cup requested :
                  LET r == reopen(db, "db1", <<n>>) IN
                  r.tag = "Ok" /\ r.val[1].cf = n
             /\ \A n \in there : engine[n].data = disk.data[n]
             /\ \A n \in requested \ there : engine[n].data = <<>>

\* C15 witness: open_cf was given twice the name of a column family at the
\* path, which holds a key, and returned an engine whose column family of
\* that name holds it.
C15_Witness ==
    /\ last.op = "open_cf"
    /\ last.res.tag = "Ok"
    /\ Len(last.keys) = 2
    /\ last.keys[1] = last.keys[2]
    /\ last.vals[1].exists
    /\ Contains(last.vals[1].names, last.keys[1])
    /\ last.vals[1].data[last.keys[1]] # <<>>
    /\ last.res.val[1][last.keys[1]].data = last.vals[1].data[last.keys[1]]

\* the column families other than the one of the handle m
OtherCfs(m) ==
    {x \in Engines \X CFNames : x[1] # MapDb(m) \/ x[2] # MapCf(m)}

\* C19: insert, remove and the two steps of clear on a handle leave every
\* column family but the handle's as it was; a staging call stages its
\* operations for the column family and the engine of the handle it was
\* given, and write() leaves every column family no staged operation names
\* as it was; and a pair inserted through one handle is what get returns
\* through every handle bound to the same column family of the same engine
\* (the value, or the decoding error when its bytes are not a V of that
\* handle).
C19_ColumnFamiliesIsolated ==
    [][/\ last'.op \in {"insert", "remove", "drop_cf", "clear"} =>
            \A x \in OtherCfs(last'.map) : cfs'[x[1]][x[2]] = cfs[x[1]][x[2]]
       /\ (last'.op \in StagingOps /\ last'.res.tag = "Ok") =>
            /\ batch'.db = MapDb(last'.map)
            /\ SubSeq(batch'.ops, 1, Len(batch.ops)) = batch.ops
            /\ \A i \in (Len(batch.ops) + 1)..Len(batch'.ops) :
                 batch'.ops[i].cf = MapCf(last'.map)
       /\ last'.op = "write" =>
            \A e \in Engines, n \in CFNames :
               (e # batch.db \/ ~\E i \in 1..Len(batch.ops) : batch.ops[i].cf = n) =>
                  cfs'[e][n] = cfs[e][n]
       /\ (last'.op = "insert" /\ last'.res.tag = "Ok") =>
            \A h \in SameCf(last'.map) :
               LET g == get(cfs', h, last'.keys[1], FALSE)
                   v == last'.vals[1]
               IN
               IF deserialize_value(MapVTy(h), serialize_value(v)).ok
                 THEN g.tag = "Ok" /\ g.val[1].some /\ g.val[1].v = v
                 ELSE g.tag = "Err"]_vars

\* C19 witness: a pair was inserted through the handle of column family B
\* while the column family A of the same engine and the column family A of
\* the other engine hold the same key, with another value or none.
C19_Witness ==
    /\ last.op = "insert"
    /\ last.map = "mB"
    /\ last.res.tag = "Ok"
    /\ serialize_key(last.keys[1]).bytes \in DOMAIN cfs["db1"]["A"].data
    /\ cfs["db1"]["A"].data[serialize_key(last.keys[1]).bytes] # serialize_value(last.vals[1])
    /\ serialize_key(last.keys[1]).bytes \notin DOMAIN cfs["db2"]["A"].data

====
